---- MODULE Spec2Model ----
(***************************************************************************)
(* Model of update.py: the scaffolding pipeline that reads apps.json,      *)
(* clones the base repository when it is absent, and for every app whose   *)
(* folder does not exist yet copies four artifacts, renders form.yml and   *)
(* manifest.yml through erb and removes the intermediate files.            *)
(*                                                                         *)
(* A JSON object is a function whose DOMAIN is the set of keys present.    *)
(* The filesystem is the set of app folders (dirs), the set of files in    *)
(* them (files) and the state of the base clone (base_dir).  Every         *)
(* external command and filesystem call is one step, so that a failure     *)
(* can strike between any two of them, as subprocess.check_call allows.    *)
(***************************************************************************)
EXTENDS Integers, Sequences, FiniteSets, TLC

VARIABLES
  base,        \* data['base'] of apps.json
  apps,        \* data['apps'] of apps.json
  dirs,        \* app_names whose folder exists under APPS_DIR
  files,       \* files inside the app folders: [dir, file, src, lines]
  base_dir,    \* the local clone: "absent", "full" or "empty"
  pc,          \* position of main()
  i,           \* index in data['apps'] of the app being processed
  output,      \* lines printed by main() in this run
  ops,         \* filesystem calls and shell commands issued in this run
  cause,       \* what raised, when pc = "aborted"
  run,         \* number of the current invocation of main()
  prev,        \* how the previous invocation ended
  dirs0,       \* dirs when this invocation started
  files0,      \* files when this invocation started
  base_dir0,   \* base_dir when this invocation started
  renderFailed \* app_names for which an erb invocation has failed

vars == <<base, apps, dirs, files, base_dir, pc, i, output, ops, cause,
          run, prev, dirs0, files0, base_dir0, renderFailed>>

config == <<base, apps>>
fs == <<dirs, files, base_dir>>
snapshot == <<dirs0, files0, base_dir0>>

----------------------------------------------------------------------------
(* Bounds *)

MaxApps == 3
MaxRuns == 2

----------------------------------------------------------------------------
(* JSON objects *)

Empty == [k \in {} |-> TRUE]

Opt(k, present, v) == IF present THEN k :> v ELSE Empty

Drop(d, k) == [x \in DOMAIN d \ {k} |-> d[x]]

\* dict.get(k, default)
Get(d, k, default) == IF k \in DOMAIN d THEN d[k] ELSE default

\* f"{d.get(k)}" for a string value: None is formatted as "None"
GetStr(d, k) == IF k \in DOMAIN d THEN d[k] ELSE "None"

\* f"{d.get(k)}" for an integer value
GetNum(d, k) == IF k \in DOMAIN d THEN ToString(d[k]) ELSE "None"

\* str(b) of a bool
PyStr(b) == IF b THEN "True" ELSE "False"

\* str.lower() on the strings str(bool) produces
Lower(s) == CASE s = "True" -> "true" [] s = "False" -> "false" [] OTHER -> s

----------------------------------------------------------------------------
(* Configurations *)

Names == {"a", "b"}

BaseRequired ==
  {"app_type", "git_url", "git_dir", "git_branch", "vm_image", "use_custom_image_file"}

AppRequired == {"app_name", "title", "name", "cpu", "memory"}

BaseWith(vm, ucif) ==
  [app_type |-> "windows", git_url |-> "https://example/repo.git",
   git_dir |-> "base1", git_branch |-> "main",
   vm_image |-> vm, use_custom_image_file |-> ucif]

\* a resource dimension: value (required by the renderer), select, min, max
Dimensions ==
  {Opt("value", v, 4) @@ Opt("select", s # "absent", s = "true")
     @@ Opt("min", mm, 1) @@ Opt("max", mm, 8) :
     v \in BOOLEAN, s \in {"absent", "true", "false"}, mm \in BOOLEAN}

AppWith(n, mem, cpu) ==
  [app_name |-> n, title |-> "My App", name |-> "myapp", cpu |-> cpu, memory |-> mem]

\* the configurations of the pipeline specification
BasePool ==
  { BaseWith([select |-> FALSE, base_image |-> "centos7"], FALSE),
    Drop(BaseWith([select |-> FALSE, base_image |-> "centos7"], FALSE), "git_branch") }

AppPool ==
  { AppWith("a", [value |-> 4096], [value |-> 2]),
    AppWith("b", [value |-> 4096, select |-> TRUE, min |-> 1024, max |-> 8192],
                 [value |-> 2, select |-> FALSE, min |-> 1, max |-> 8])
      @@ [vm_image |-> [select |-> TRUE, base_image |-> "rocky8"]],
    Drop(AppWith("a", [value |-> 4096], [value |-> 2]), "title"),
    AppWith("b", [value |-> 4096], [select |-> TRUE, min |-> 1, max |-> 8]) }

\* the configurations of the renderer specification: one app, every shape
BroadBases ==
  { BaseWith([select |-> FALSE, base_image |-> "centos7"], FALSE),
    BaseWith([select |-> TRUE], TRUE),
    BaseWith([base_image |-> "centos7"], TRUE),
    Drop(BaseWith([select |-> FALSE, base_image |-> "centos7"], FALSE), "vm_image") }

BroadDims == {d \in Dimensions : "value" \in DOMAIN d} \cup {[select |-> TRUE]}

BroadApps ==
  { AppWith("a", mem, cpu) @@ Opt("vm_image", vm # Empty, vm)
      @@ Opt("use_custom_image_file", u # "absent", u = "true") :
      mem \in BroadDims, cpu \in BroadDims,
      vm \in {Empty, [select |-> TRUE, base_image |-> "rocky8"],
              [select |-> FALSE, base_image |-> "rocky8"], [base_image |-> "rocky8"]},
      u \in {"absent", "true"} }
    \cup { Drop(AppWith("a", [value |-> 4], [value |-> 4]), "memory") }

SeqsUpTo(S, n) == UNION {[1..m -> S] : m \in 0..n}

----------------------------------------------------------------------------
(* Filesystem *)

CopyList == <<"form.yml.erb", "manifest.yml.erb", "submit.yml.erb", "template">>

Artifacts == {CopyList[k] : k \in 1..Len(CopyList)}

BaseFiles(b) == IF b = "full" THEN Artifacts ELSE {}

File(d, f, src, lines) == [dir |-> d, file |-> f, src |-> src, lines |-> lines]

FilesOf(d) == {x.file : x \in {y \in files : y.dir = d}}

Has(d, f) == f \in FilesOf(d)

\* writing or overwriting file f of folder d
Put(fl, d, f, src, lines) ==
  {x \in fl : ~(x.dir = d /\ x.file = f)} \cup {File(d, f, src, lines)}

Remove(fl, d, f) == {x \in fl : ~(x.dir = d /\ x.file = f)}

Content(d, f) == (CHOOSE x \in files : x.dir = d /\ x.file = f).lines

\* what a folder that exists before the first run holds
InitialFolder(d, kind) ==
  IF kind = "foreign" THEN {File(d, "form.yml", "foreign", <<>>)} ELSE {}

Op(kind, arg, ok) == [op |-> kind, app |-> i, arg |-> arg, ok |-> ok]

----------------------------------------------------------------------------
(* load_apps *)

\* a sanity check that stops at the base and never looks at the apps
AssertKeysBaseOnly(b, as) == \A key \in BaseRequired : key \in DOMAIN b

\* the sanity check of load_apps: every required key of the base and of
\* every app is present
AssertKeys(b, as) ==
  /\ \A key \in BaseRequired : key \in DOMAIN b
  /\ \A j \in 1..Len(as) : \A key \in AppRequired : key \in DOMAIN as[j]

----------------------------------------------------------------------------
(* update_form_and_manifest: the eRuby template variables *)

\* one line of vars.rb: f"@{name} = {value}"
Line(name, value) == <<"@" \o name, value>>

\* a renderer that emits the bounds whenever they are configured
DimVarsUngated(prefix, dim) ==
  (IF Get(dim, "select", FALSE)
     THEN << Line(prefix \o "_select", "true") >> ELSE << >>)
  \o (IF "min" \in DOMAIN dim THEN << Line(prefix \o "_min", GetNum(dim, "min")) >> ELSE << >>)
  \o (IF "max" \in DOMAIN dim THEN << Line(prefix \o "_max", GetNum(dim, "max")) >> ELSE << >>)
  \o << Line(prefix, ToString(dim["value"])) >>

\* the variables of one resource dimension (memory or cpu)
DimVars(prefix, dim) ==
  (IF Get(dim, "select", FALSE)
     THEN << Line(prefix \o "_select", "true"),
             Line(prefix \o "_min", GetNum(dim, "min")),
             Line(prefix \o "_max", GetNum(dim, "max")) >>
     ELSE << >>)
  \o << Line(prefix, ToString(dim["value"])) >>

\* the variables of the VM image
ImageVars(vm_image) ==
  IF ~Get(vm_image, "select", FALSE)
    THEN << Line("base_image_select", "false"),
            Line("base_image", GetStr(vm_image, "base_image")) >>
    ELSE << Line("base_image_select", "true") >>

\* an override merged key by key over the base's vm_image
VmImageMerged(b, app) == Get(app, "vm_image", Empty) @@ b["vm_image"]

\* app.get('vm_image', base['vm_image'])
VmImageOf(b, app) == Get(app, "vm_image", b["vm_image"])

\* the keys update_form_and_manifest subscripts before it writes anything
\* (base['app_type'], app['title'], app['name'], base['use_custom_image_file'],
\* base['vm_image'], memory['value'], cpu['value']): a missing one raises
HasValues(b, app) ==
  /\ {"app_type", "use_custom_image_file", "vm_image"} \subseteq DOMAIN b
  /\ {"title", "name"} \subseteq DOMAIN app
  /\ "value" \in DOMAIN Get(app, "memory", Empty)
  /\ "value" \in DOMAIN Get(app, "cpu", Empty)

ErbVars(b, app) ==
  << Line("title", "'" \o app["title"] \o "'"),
     Line("name", "'" \o app["name"] \o "'") >>
  \o DimVars("custom_memory_per_node", Get(app, "memory", Empty))
  \o DimVars("custom_num_cores", Get(app, "cpu", Empty))
  \o ImageVars(VmImageOf(b, app))
  \o << Line("use_custom_image_file",
             Lower(PyStr(Get(app, "use_custom_image_file", b["use_custom_image_file"])))) >>

----------------------------------------------------------------------------
(* Control *)

CpPc == <<"cp1", "cp2", "cp3", "cp4">>
ErbPc == <<"erb1", "erb2">>
RmPc == <<"rm1", "rm2", "rm3">>

Templates == <<"form.yml.erb", "manifest.yml.erb">>
Rendered == <<"form.yml", "manifest.yml">>
\* a cleanup that removes the rendered form instead of the variables file
RmListWrongFile == <<"form.yml.erb", "manifest.yml.erb", "form.yml">>

RmList == <<"form.yml.erb", "manifest.yml.erb", "vars.rb">>

\* the statement that follows the one at p inside create_app
StepAfter(p) ==
  CASE p = "clone" -> "cp1"
    [] p = "cp1" -> "cp2" [] p = "cp2" -> "cp3" [] p = "cp3" -> "cp4"
    [] p = "cp4" -> "vars"
    [] p = "vars" -> "erb1"
    [] p = "erb1" -> "erb2" [] p = "erb2" -> "rm1"
    [] p = "rm1" -> "rm2" [] p = "rm2" -> "rm3" [] p = "rm3" -> "created"

\* an exception propagates out of main(): nothing catches it
Raise(c) == pc' = "aborted" /\ cause' = c

\* subprocess.call: the exit status is dropped and the caller goes on
ExecShellIgnore(c) == pc' = StepAfter(pc) /\ cause' = cause

\* subprocess.check_call raises when the command exits non-zero
ExecShellRaise(c) == Raise(c)

\* an existence test on a template inside the folder instead of the folder
DestExistsByTemplate(app) == Has(app["app_name"], "form.yml.erb")

\* os.path.exists(dest) in create_app
DestExists(app) == app["app_name"] \in dirs

\* the two messages of main() exchanged
PrintLineSwapped(created, app) ==
  [kind |-> IF created THEN "Skipped" ELSE "Created", name |-> app["app_name"]]

\* the line main() prints for an app
PrintLine(created, app) ==
  [kind |-> IF created THEN "Created" ELSE "Skipped", name |-> app["app_name"]]

Ghost == UNCHANGED <<run, prev, snapshot>>

----------------------------------------------------------------------------
(* Initial states *)

InitFs(kinds, clones) ==
  /\ \E kind \in kinds :
       /\ dirs = {n \in Names : kind[n] # "absent"}
       /\ files = UNION {InitialFolder(n, kind[n]) : n \in Names}
  /\ base_dir \in clones

InitRun ==
  /\ pc = "load" /\ i = 1 /\ output = <<>> /\ ops = <<>> /\ cause = "none"
  /\ run = 1 /\ prev = "none" /\ renderFailed = {}
  /\ dirs0 = dirs /\ files0 = files /\ base_dir0 = base_dir

Init ==
  /\ base \in BasePool
  /\ apps \in SeqsUpTo(AppPool, MaxApps)
  /\ InitFs([Names -> {"absent", "empty", "foreign"}], {"absent", "full", "empty"})
  /\ InitRun

InitRender ==
  /\ base \in BroadBases
  /\ apps \in [1..1 -> BroadApps]
  /\ InitFs({[n \in Names |-> IF n = "a" THEN k ELSE "absent"] : k \in {"absent", "empty"}},
            {"absent", "full"})
  /\ InitRun

----------------------------------------------------------------------------
(* main and load_apps *)

\* load_apps returns the document: main enters its loop
LoadApps ==
  /\ pc = "load"
  /\ AssertKeys(base, apps)
  /\ pc' = "loop" /\ i' = 1
  /\ UNCHANGED <<config, fs, output, ops, cause, renderFailed>> /\ Ghost

\* an assert of load_apps fails
LoadAppsAssert ==
  /\ pc = "load"
  /\ ~AssertKeys(base, apps)
  /\ Raise("AssertionError")
  /\ UNCHANGED <<config, fs, i, output, ops, renderFailed>> /\ Ghost

\* the for loop of main is exhausted
MainDone ==
  /\ pc = "loop"
  /\ i > Len(apps)
  /\ pc' = "done"
  /\ UNCHANGED <<config, fs, i, output, ops, cause, renderFailed>> /\ Ghost

----------------------------------------------------------------------------
(* create_app *)

\* an existing folder that is refreshed instead of being left alone
CreateAppNoReturn ==
  /\ pc = "loop"
  /\ i <= Len(apps)
  /\ DestExists(apps[i])
  /\ pc' = "clone"
  /\ UNCHANGED <<config, fs, i, output, ops, cause, renderFailed>> /\ Ghost

\* the folder exists: create_app returns False and main prints "Skipped"
CreateAppSkip ==
  /\ pc = "loop"
  /\ i <= Len(apps)
  /\ DestExists(apps[i])
  /\ output' = Append(output, PrintLine(FALSE, apps[i]))
  /\ i' = i + 1
  /\ UNCHANGED <<config, fs, pc, ops, cause, renderFailed>> /\ Ghost

\* the folder is only made once the base repository has been copied from
MakeDirsLate ==
  /\ pc = "loop"
  /\ i <= Len(apps)
  /\ ~DestExists(apps[i])
  /\ ops' = Append(ops, Op("makedirs", apps[i]["app_name"], TRUE))
  /\ pc' = "clone"
  /\ UNCHANGED <<config, fs, i, output, cause, renderFailed>> /\ Ghost

\* os.makedirs(dest)
MakeDirs ==
  /\ pc = "loop"
  /\ i <= Len(apps)
  /\ ~DestExists(apps[i])
  /\ dirs' = dirs \cup {apps[i]["app_name"]}
  /\ ops' = Append(ops, Op("makedirs", apps[i]["app_name"], TRUE))
  /\ pc' = "clone"
  /\ UNCHANGED <<config, files, base_dir, i, output, cause, renderFailed>> /\ Ghost

\* os.makedirs(dest) raises OSError
MakeDirsFail ==
  /\ pc = "loop"
  /\ i <= Len(apps)
  /\ ~DestExists(apps[i])
  /\ ops' = Append(ops, Op("makedirs", apps[i]["app_name"], FALSE))
  /\ Raise("makedirs")
  /\ UNCHANGED <<config, fs, i, output, renderFailed>> /\ Ghost

\* create_app returns True and main prints "Created"
CreateAppReturn ==
  /\ pc = "created"
  /\ output' = Append(output, PrintLine(TRUE, apps[i]))
  /\ i' = i + 1
  /\ pc' = "loop"
  /\ UNCHANGED <<config, fs, ops, cause, renderFailed>> /\ Ghost

----------------------------------------------------------------------------
(* copy_base_repo *)

\* the clone exists: it is trusted as it is
CloneSkip ==
  /\ pc = "clone"
  /\ base_dir # "absent"
  /\ pc' = StepAfter(pc)
  /\ UNCHANGED <<config, fs, i, output, ops, cause, renderFailed>> /\ Ghost

\* git clone --single-branch succeeds
GitClone ==
  /\ pc = "clone"
  /\ base_dir = "absent"
  /\ base_dir' = "full"
  /\ ops' = Append(ops, Op("git clone", base["git_dir"], TRUE))
  /\ pc' = StepAfter(pc)
  /\ UNCHANGED <<config, dirs, files, i, output, cause, renderFailed>> /\ Ghost

\* git clone exits non-zero; it may or may not leave the target folder behind
GitCloneFail ==
  /\ pc = "clone"
  /\ base_dir = "absent"
  /\ base_dir' \in {"absent", "empty"}
  /\ ops' = Append(ops, Op("git clone", base["git_dir"], FALSE))
  /\ ExecShellRaise("git clone")
  /\ UNCHANGED <<config, dirs, files, i, output, renderFailed>> /\ Ghost

\* cp -R of one of the four artifacts succeeds
Cp ==
  \E k \in 1..Len(CopyList) :
    /\ pc = CpPc[k]
    /\ CopyList[k] \in BaseFiles(base_dir)
    /\ files' = Put(files, apps[i]["app_name"], CopyList[k], "base", <<>>)
    /\ ops' = Append(ops, Op("cp", CopyList[k], TRUE))
    /\ pc' = StepAfter(pc)
    /\ UNCHANGED <<config, dirs, base_dir, i, output, cause, renderFailed>> /\ Ghost

\* cp -R exits non-zero (it must when the source is missing)
CpFail ==
  \E k \in 1..Len(CopyList) :
    /\ pc = CpPc[k]
    /\ ops' = Append(ops, Op("cp", CopyList[k], FALSE))
    /\ ExecShellRaise("cp")
    /\ UNCHANGED <<config, fs, i, output, renderFailed>> /\ Ghost

----------------------------------------------------------------------------
(* update_form_and_manifest *)

\* memory['value'] or cpu['value'] raises KeyError before anything is written
VarsKeyError ==
  /\ pc = "vars"
  /\ ~HasValues(base, apps[i])
  /\ Raise("KeyError")
  /\ UNCHANGED <<config, fs, i, output, ops, renderFailed>> /\ Ghost

\* the variables are computed and written to vars.rb
WriteVars ==
  /\ pc = "vars"
  /\ HasValues(base, apps[i])
  /\ files' = Put(files, apps[i]["app_name"], "vars.rb", "write", ErbVars(base, apps[i]))
  /\ ops' = Append(ops, Op("write", "vars.rb", TRUE))
  /\ pc' = StepAfter(pc)
  /\ UNCHANGED <<config, dirs, base_dir, i, output, cause, renderFailed>> /\ Ghost

\* erb renders a template into its output file
Erb ==
  \E k \in 1..Len(Templates) :
    /\ pc = ErbPc[k]
    /\ Has(apps[i]["app_name"], Templates[k])
    /\ Has(apps[i]["app_name"], "vars.rb")
    /\ files' = Put(files, apps[i]["app_name"], Rendered[k], "erb",
                    Content(apps[i]["app_name"], "vars.rb"))
    /\ ops' = Append(ops, Op("erb", Templates[k], TRUE))
    /\ pc' = StepAfter(pc)
    /\ UNCHANGED <<config, dirs, base_dir, i, output, cause, renderFailed>> /\ Ghost

\* a failed render that cleans the variables file up before it raises
ErbFailCleanup ==
  \E k \in 1..Len(Templates) :
    /\ pc = ErbPc[k]
    /\ files' = Remove(Put(files, apps[i]["app_name"], Rendered[k], "erb-failed", <<>>),
                       apps[i]["app_name"], "vars.rb")
    /\ ops' = Append(ops, Op("erb", Templates[k], FALSE))
    /\ renderFailed' = renderFailed \cup {apps[i]["app_name"]}
    /\ ExecShellRaise("erb")
    /\ UNCHANGED <<config, dirs, base_dir, i, output>> /\ Ghost

\* erb exits non-zero; the shell has already created the redirection target
ErbFail ==
  \E k \in 1..Len(Templates) :
    /\ pc = ErbPc[k]
    /\ files' = Put(files, apps[i]["app_name"], Rendered[k], "erb-failed", <<>>)
    /\ ops' = Append(ops, Op("erb", Templates[k], FALSE))
    /\ renderFailed' = renderFailed \cup {apps[i]["app_name"]}
    /\ ExecShellRaise("erb")
    /\ UNCHANGED <<config, dirs, base_dir, i, output>> /\ Ghost

\* rm removes one of the intermediate files
Rm ==
  \E k \in 1..Len(RmList) :
    /\ pc = RmPc[k]
    /\ Has(apps[i]["app_name"], RmList[k])
    /\ files' = Remove(files, apps[i]["app_name"], RmList[k])
    /\ ops' = Append(ops, Op("rm", RmList[k], TRUE))
    /\ pc' = StepAfter(pc)
    /\ UNCHANGED <<config, dirs, base_dir, i, output, cause, renderFailed>> /\ Ghost

\* rm exits non-zero
RmFail ==
  \E k \in 1..Len(RmList) :
    /\ pc = RmPc[k]
    /\ ops' = Append(ops, Op("rm", RmList[k], FALSE))
    /\ ExecShellRaise("rm")
    /\ UNCHANGED <<config, fs, i, output, renderFailed>> /\ Ghost

----------------------------------------------------------------------------
(* The program is invoked again on the same configuration and filesystem *)

StartRun ==
  /\ pc \in {"done", "aborted"}
  /\ run < MaxRuns
  /\ run' = run + 1
  /\ prev' = pc
  /\ dirs0' = dirs /\ files0' = files /\ base_dir0' = base_dir
  /\ pc' = "load" /\ i' = 1 /\ output' = <<>> /\ ops' = <<>> /\ cause' = "none"
  /\ UNCHANGED <<config, fs, renderFailed>>

Next ==
  \/ LoadApps \/ LoadAppsAssert \/ MainDone
  \/ CreateAppSkip \/ MakeDirs \/ MakeDirsFail \/ CreateAppReturn
  \/ CloneSkip \/ GitClone \/ GitCloneFail \/ Cp \/ CpFail
  \/ VarsKeyError \/ WriteVars \/ Erb \/ ErbFail \/ Rm \/ RmFail
  \/ StartRun

Spec == Init /\ [][Next]_vars

SpecRender == InitRender /\ [][Next]_vars

TypeOK ==
  /\ dirs \subseteq Names
  /\ \A x \in files : x.dir \in dirs
  /\ base_dir \in {"absent", "full", "empty"}
  /\ pc \in {"load", "loop", "clone", "vars", "created", "done", "aborted"}
            \cup {CpPc[k] : k \in 1..4} \cup {ErbPc[k] : k \in 1..2} \cup {RmPc[k] : k \in 1..3}
  /\ i \in 1..(Len(apps) + 1)
  /\ run \in 1..MaxRuns

----------------------------------------------------------------------------
(* Properties *)

CompleteSet == {"form.yml", "manifest.yml", "submit.yml.erb", "template"}

Intermediate == {"form.yml.erb", "manifest.yml.erb", "vars.rb"}

Complete(n) == n \in dirs /\ FilesOf(n) = CompleteSet

FsUntouched == dirs = dirs0 /\ files = files0 /\ base_dir = base_dir0

AllSkipped == \A j \in 1..Len(output) : output[j].kind = "Skipped"

Ended == pc \in {"done", "aborted"}

\* a run that is not the first leaves no trace but "Skipped" lines
NoDuplicateWork ==
  /\ ops = <<>>
  /\ FsUntouched
  /\ AllSkipped
  /\ pc # "aborted"
  /\ Ended => Len(output) = Len(apps)

C2_ExistingFolderUntouched ==
  [][ (pc = "loop" /\ i <= Len(apps) /\ apps[i]["app_name"] \in dirs)
        => /\ UNCHANGED <<fs, ops>>
           /\ output' = Append(output, [kind |-> "Skipped", name |-> apps[i]["app_name"]])
           /\ i' = i + 1
           /\ pc' = "loop" ]_vars

\* an app whose folder pre-existed, empty, has been reported as skipped
C2_Witness ==
  /\ Len(output) >= 1
  /\ output[Len(output)].kind = "Skipped"
  /\ output[Len(output)].name \in dirs0
  /\ FilesOf(output[Len(output)].name) = {}

\* C3: whenever create_app has returned True for an app, its folder holds
\* exactly form.yml, manifest.yml, submit.yml.erb and template.
C3_CreatedIsComplete ==
  /\ pc = "created" => Complete(apps[i]["app_name"])
  /\ \A j \in 1..Len(output) : output[j].kind = "Created" => Complete(output[j].name)

\* create_app is returning True
C3_Witness == pc = "created" /\ FilesOf(apps[i]["app_name"]) \cap Intermediate = {}

MissingRequiredKey ==
  \/ \E key \in BaseRequired : key \notin DOMAIN base
  \/ \E j \in 1..Len(apps) : \E key \in AppRequired : key \notin DOMAIN apps[j]

\* C4: when the base or any app lacks a required key, the run ends in the
\* assertion error of load_apps with the filesystem untouched, nothing
\* issued and nothing printed.
C4_AssertBeforeEffects ==
  MissingRequiredKey =>
    /\ pc \in {"load", "aborted"}
    /\ pc = "aborted" => cause = "AssertionError"
    /\ FsUntouched
    /\ ops = <<>>
    /\ output = <<>>

\* the assertion fired for a malformed second app behind a well-formed first
\* app whose folder does not exist
C4_Witness ==
  /\ pc = "aborted" /\ cause = "AssertionError"
  /\ Len(apps) >= 2
  /\ \A key \in BaseRequired : key \in DOMAIN base
  /\ \A key \in AppRequired : key \in DOMAIN apps[1]
  /\ "title" \notin DOMAIN apps[2]
  /\ apps[1]["app_name"] \notin dirs

\* C5: a failed call or command is the last thing the run does; at the
\* abort, exactly the apps before the failing one have a line, those of them
\* reported as created are complete, nothing was issued for a later app and
\* no folder of a later app was made by this run.
C5_FatalPropagation ==
  /\ \A k \in 1..Len(ops) : ~ops[k].ok => (pc = "aborted" /\ k = Len(ops))
  /\ (pc = "aborted" /\ cause # "AssertionError") =>
       /\ Len(output) = i - 1
       /\ \A k \in 1..Len(ops) : ops[k].app <= i
       /\ \A j \in 1..(i - 1) :
            output[j].kind = "Created" => Complete(apps[j]["app_name"])
       /\ \A j \in (i + 1)..Len(apps) :
            apps[j]["app_name"] \in dirs =>
              \/ apps[j]["app_name"] \in dirs0
              \/ \E k \in 1..i : apps[k]["app_name"] = apps[j]["app_name"]

\* the second of three apps failed after the first was created
C5_Witness ==
  /\ pc = "aborted" /\ cause \in {"makedirs", "git clone", "cp", "erb", "rm"}
  /\ Len(apps) = 3 /\ i = 2
  /\ output[1].kind = "Created"
  /\ apps[3]["app_name"] \notin dirs

\* the folder of apps[j] exists when the loop reaches it: it existed when the
\* run started or an earlier entry has the same app_name
ExistsWhenReached(j) ==
  \/ apps[j]["app_name"] \in dirs0
  \/ \E k \in 1..(j - 1) : apps[k]["app_name"] = apps[j]["app_name"]

\* C6: a run that completes has printed one line per app, in list order,
\* "Created" exactly for the apps whose folder did not exist when reached.
C6_OneLinePerApp ==
  pc = "done" =>
    /\ Len(output) = Len(apps)
    /\ \A j \in 1..Len(apps) :
         /\ output[j].name = apps[j]["app_name"]
         /\ output[j].kind \in {"Created", "Skipped"}
         /\ output[j].kind = "Created" <=> ~ExistsWhenReached(j)

\* a completed run with the same app_name twice: created, then skipped
C6_Witness ==
  /\ pc = "done" /\ Len(apps) >= 2
  /\ apps[1]["app_name"] = apps[2]["app_name"]
  /\ output[1].kind = "Created" /\ output[2].kind = "Skipped"

\* the app whose variables file is on disk, between the write and its removal
Rendering == pc \in {"erb1", "erb2", "rm1", "rm2", "rm3"}

VarsLines == Content(apps[i]["app_name"], "vars.rb")

VarsSet == {VarsLines[k] : k \in 1..Len(VarsLines)}

VarsNames == {l[1] : l \in VarsSet}

Selected(d) == "select" \in DOMAIN d /\ d["select"] = TRUE

\* the claim about one resource dimension
DimensionEmitted(prefix, dim) ==
  /\ <<prefix, ToString(dim["value"])>> \in VarsSet
  /\ Selected(dim) =>
       /\ <<prefix \o "_select", "true">> \in VarsSet
       /\ {prefix \o "_min", prefix \o "_max"} \subseteq VarsNames
  /\ ~Selected(dim) =>
       {prefix \o "_select", prefix \o "_min", prefix \o "_max"} \cap VarsNames = {}

\* C7: the variables file always holds the value of memory and of cpu; it
\* holds the dimension's _select = true, _min and _max when the dimension's
\* select is true and none of the three otherwise, whatever min and max the
\* configuration gives.
C7_ResourceVariables ==
  Rendering =>
    /\ DimensionEmitted("@custom_memory_per_node", apps[i]["memory"])
    /\ DimensionEmitted("@custom_num_cores", apps[i]["cpu"])

\* the file is written for a selectable memory and a cpu whose select is
\* false although min and max are configured
C7_Witness ==
  /\ pc = "erb1"
  /\ Selected(apps[i]["memory"])
  /\ "select" \in DOMAIN apps[i]["cpu"] /\ ~apps[i]["cpu"]["select"]
  /\ {"min", "max"} \subseteq DOMAIN apps[i]["cpu"]

\* the app's vm_image when it has one, the base's otherwise
EffectiveVmImage ==
  IF "vm_image" \in DOMAIN apps[i] THEN apps[i]["vm_image"] ELSE base["vm_image"]

\* C8: with the effective vm_image taken whole, the variables file holds
\* base_image_select = true and no base_image when its select is true, and
\* base_image_select = false together with base_image = <its base_image>
\* (None when it has none) when its select is false or absent.
C8_ImageVariables ==
  Rendering =>
    /\ Selected(EffectiveVmImage) =>
         /\ <<"@base_image_select", "true">> \in VarsSet
         /\ "@base_image" \notin VarsNames
    /\ ~Selected(EffectiveVmImage) =>
         /\ <<"@base_image_select", "false">> \in VarsSet
         /\ <<"@base_image", IF "base_image" \in DOMAIN EffectiveVmImage
                              THEN EffectiveVmImage["base_image"] ELSE "None">> \in VarsSet
         /\ <<"@base_image_select", "true">> \notin VarsSet

\* the file is written for an app whose vm_image has no select while the
\* base's vm_image has select = true
C8_Witness ==
  /\ pc = "erb1"
  /\ "vm_image" \in DOMAIN apps[i]
  /\ "select" \notin DOMAIN apps[i]["vm_image"]
  /\ Selected(base["vm_image"])

IssuedFor(j, kind) == \E k \in 1..Len(ops) : ops[k].app = j /\ ops[k].op = kind

\* C9: when an erb invocation fails no removal has run and the two
\* templates and vars.rb are in the folder at the abort; from then on the
\* folder keeps them, never holds the completed artifact set, and every line
\* printed for that app_name is "Skipped".
C9_RenderFailureIsPermanent ==
  /\ (pc = "aborted" /\ cause = "erb") =>
       /\ ~IssuedFor(i, "rm")
       /\ Intermediate \subseteq FilesOf(apps[i]["app_name"])
  /\ \A n \in renderFailed :
       /\ n \in dirs
       /\ Intermediate \subseteq FilesOf(n)
       /\ ~Complete(n)
       /\ \A j \in 1..Len(output) : output[j].name = n => output[j].kind = "Skipped"

\* a later run has completed and skipped an app whose render failed
C9_Witness ==
  /\ run >= 2 /\ pc = "done"
  /\ \E j \in 1..Len(output) : output[j].name \in renderFailed /\ output[j].kind = "Skipped"

\* C10 as stated: the clone is attempted before any app folder is made, and
\* a clone failure aborts the run with no app folder created by the run.
C10_ProvisionBeforeLoop ==
  /\ \A k \in 1..Len(ops) :
       ops[k].op = "git clone" => \A m \in 1..(k - 1) : ops[m].op # "makedirs"
  /\ (pc = "aborted" /\ cause = "git clone") => dirs = dirs0

\* C10 amended: the base clone is checked inside each create_app that makes
\* a folder, right after the folder is made; the clone is attempted at most
\* once per run, and a clone failure aborts the run leaving that app's new,
\* empty folder as the only folder the run created.
C10_ProvisionInsideCreate ==
  /\ pc = "clone" => apps[i]["app_name"] \in dirs
  /\ \A k \in 1..Len(ops) :
       ops[k].op = "git clone" =>
         /\ k > 1
         /\ ops[k - 1].op = "makedirs" /\ ops[k - 1].ok
         /\ ops[k - 1].app = ops[k].app
         /\ \A m \in 1..Len(ops) : ops[m].op = "git clone" => m = k
  /\ (pc = "aborted" /\ cause = "git clone") =>
       /\ apps[i]["app_name"] \notin dirs0
       /\ dirs = dirs0 \cup {apps[i]["app_name"]}
       /\ FilesOf(apps[i]["app_name"]) = {}

\* the clone failed for the second app, the first having been skipped
C10_Witness ==
  /\ pc = "aborted" /\ cause = "git clone"
  /\ i = 2 /\ output = <<[kind |-> "Skipped", name |-> apps[1]["app_name"]]>>

====
